---- MODULE Spec2Model ----
(***************************************************************************)
(* A model of the Sandia Data Archive engine: the archive operations of    *)
(* SDAFile (src/sda/sda_file.py) over a backing store of named groups and  *)
(* datasets with attributes, together with the helpers of utils.py they    *)
(* call.  Names (labels, field names, child labels) and text are sequences *)
(* of character codes, so that label validation, field-name validation,    *)
(* sorting, joining and splitting are computed as the code computes them.  *)
(***************************************************************************)
EXTENDS Integers, Sequences, FiniteSets, TLC

\* ------------------------------------------------------------------------
\* Bounds of the exploration: the number of operations performed on an
\* archive, and the number of items a caller appends to a list it was handed.
MaxOps == 2

MaxAppended == 2

\* ------------------------------------------------------------------------
\* Text as sequences of character codes.

\* "element " : the prefix of the positional child label of a cell.
ElementPrefix == <<101, 108, 101, 109, 101, 110, 116, 32>>

\* str(i) for a natural number: its decimal digits.
RECURSIVE Digits(_)
Digits(i) == IF i < 10 THEN <<48 + i>> ELSE Digits(i \div 10) \o <<48 + (i % 10)>>

\* 'element {}'.format(i)
cell_label(i) == ElementPrefix \o Digits(i)

\* c in string.ascii_letters
IsAsciiLetter(c) == (c >= 65 /\ c <= 90) \/ (c >= 97 /\ c <= 122)

\* c in string.digits
IsAsciiDigit(c) == c >= 48 /\ c <= 57

\* is_valid_matlab_field_label: starts with a letter, and only letters, digits
\* and underscore.
is_valid_matlab_field_label(label) ==
    /\ Len(label) > 0
    /\ IsAsciiLetter(label[1])
    /\ \A i \in 1..Len(label) :
          IsAsciiLetter(label[i]) \/ IsAsciiDigit(label[i]) \/ label[i] = 95

\* s.encode('ascii') succeeds iff every code point is below 128.
IsAscii(s) == \A i \in 1..Len(s) : s[i] < 128

\* '/' in label or '\\' in label
HasSeparator(label) == \E i \in 1..Len(label) : label[i] = 47 \/ label[i] = 92

\* Lexicographic order of two texts (the order of Python's str comparison).
RECURSIVE StrLess(_, _)
StrLess(a, b) ==
    IF Len(b) = 0 THEN FALSE
    ELSE IF Len(a) = 0 THEN TRUE
    ELSE IF a[1] < b[1] THEN TRUE
    ELSE IF a[1] > b[1] THEN FALSE
    ELSE StrLess(Tail(a), Tail(b))

\* ' '.join(labels)
RECURSIVE JoinSpace(_)
JoinSpace(labels) ==
    IF Len(labels) = 0 THEN <<>>
    ELSE IF Len(labels) = 1 THEN labels[1]
    ELSE labels[1] \o <<32>> \o JoinSpace(Tail(labels))

\* str.split(): the maximal runs of non-blank characters, cur being the run
\* under construction.
RECURSIVE SplitFrom(_, _)
SplitFrom(s, cur) ==
    IF Len(s) = 0 THEN (IF Len(cur) = 0 THEN <<>> ELSE <<cur>>)
    ELSE IF s[1] = 32
         THEN (IF Len(cur) = 0 THEN SplitFrom(Tail(s), <<>>)
               ELSE <<cur>> \o SplitFrom(Tail(s), <<>>))
    ELSE SplitFrom(Tail(s), Append(cur, s[1]))

SplitSpace(s) == SplitFrom(s, <<>>)

\* ------------------------------------------------------------------------
\* In-memory values handed to insert and returned by extract.

Num(n) == [kind |-> "number", nan |-> FALSE, n |-> n]
NaN == [kind |-> "number", nan |-> TRUE, n |-> 0]
Bool(b) == [kind |-> "bool", b |-> b]
Str(s) == [kind |-> "str", s |-> s]
List(items) == [kind |-> "list", items |-> items]
\* a mapping, as the sequence of its (key, value) items in iteration order
Dict(items) == [kind |-> "dict", items |-> items]
NoneValue == [kind |-> "NoneType"]
\* a numpy array of one dimension: its dtype, its shape, and its elements in
\* order
Array(dtype, items) ==
    [kind |-> "ndarray", dtype |-> dtype, shape |-> <<Len(items)>>, items |-> items]
\* a numpy array of any shape, its elements in row-major order
ArrayND(dtype, shape, items) ==
    [kind |-> "ndarray", dtype |-> dtype, shape |-> shape, items |-> items]
\* a numpy array of booleans
BoolArray(items) == Array("bool", items)
\* a tuple
Tuple(items) == [kind |-> "tuple", items |-> items]
\* a complex scalar: each part is a number or NaN
Complex(re, im) == [kind |-> "complex", dtype |-> "complex128", re |-> re, im |-> im]
\* a sparse matrix: its dtype, its shape, and its stored entries as a sequence
\* of (row, column, value) with 0-based positions
Sparse(dtype, shape, entries) ==
    [kind |-> "sparse", dtype |-> dtype, shape |-> shape, entries |-> entries]

\* ------------------------------------------------------------------------
\* Type inference (utils.infer_record_type).  NoType is Python's None.

NoType == "None"

PRIMITIVE_RECORD_TYPES == {"character", "logical", "numeric"}

SUPPORTED_RECORD_TYPES ==
    {"character", "file", "logical", "numeric", "cell", "structure",
     "structures", "object", "objects"}

is_primitive(record_type) == record_type \in PRIMITIVE_RECORD_TYPES

is_supported(record_type) == record_type \in SUPPORTED_RECORD_TYPES

\* The dtypes whose type code is in UNSUPPORTED_NUMERIC_TYPE_CODES.
UNSUPPORTED_NUMERIC_TYPE_CODES == {"complex256", "float128", "float16"}

\* np.issubdtype(dtype, np.number) and np.issubdtype(dtype, np.complexfloating)
IsNumberDtype(dtype) ==
    dtype \in {"int64", "float16", "float64", "float128", "complex128", "complex256"}

IsComplexDtype(dtype) == dtype \in {"complex128", "complex256"}

\* The result of infer_record_type: the record type, the is_empty flag, the
\* extra information, and the exception raised ("none" when it returns).
Inferred(record_type, is_empty, extra, err) ==
    [record_type |-> record_type, is_empty |-> is_empty, extra |-> extra, err |-> err]

UNSUPPORTED == Inferred(NoType, FALSE, NoType, "none")

\* np.isnan(x).all() over the parts of a complex array picked by part.
AllNaN(items, part) == \A i \in 1..Len(items) : items[i][part].nan

\* The complex rule.  The real parts are tested first; when they are all NaN
\* the rule goes on to read obj.complex, an attribute that neither a complex
\* scalar nor an array has, and AttributeError is raised.
infer_complex(obj) ==
    IF obj.dtype \in UNSUPPORTED_NUMERIC_TYPE_CODES THEN UNSUPPORTED
    ELSE LET real_nan == IF obj.kind = "complex" THEN obj.re.nan
                         ELSE AllNaN(obj.items, "re")
         IN  IF real_nan THEN Inferred(NoType, FALSE, NoType, "AttributeError")
             ELSE Inferred("numeric", FALSE, "complex", "none")

\* The last rule: numeric and logical scalars and arrays, boolean before
\* number, then object and text arrays.
infer_scalar_or_array(obj) ==
    IF obj.kind = "bool" THEN Inferred("logical", FALSE, NoType, "none")
    ELSE IF obj.kind = "number" THEN Inferred("numeric", obj.nan, NoType, "none")
    ELSE IF obj.kind = "ndarray"
    THEN IF obj.dtype \in UNSUPPORTED_NUMERIC_TYPE_CODES THEN UNSUPPORTED
         ELSE IF obj.dtype = "bool"
         THEN Inferred("logical", Len(obj.items) = 0, NoType, "none")
         ELSE IF IsNumberDtype(obj.dtype)
         THEN Inferred("numeric", \A i \in 1..Len(obj.items) : obj.items[i].nan,
                       NoType, "none")
         ELSE IF obj.dtype \in {"object", "unicode"}
         THEN Inferred("cell", Len(obj.items) = 0, NoType, "none")
         ELSE UNSUPPORTED
    ELSE UNSUPPORTED

\* A variant of infer_record_type that looks at complex values before sparse
\* matrices and at numbers before booleans.
infer_record_type_reordered(obj) ==
    IF obj.kind = "str" THEN Inferred("character", Len(obj.s) = 0, NoType, "none")
    ELSE IF obj.kind = "ndarray" /\ obj.dtype = "S1"
    THEN Inferred("character", Len(obj.items) = 0, NoType, "none")
    ELSE IF obj.kind \in {"list", "tuple"}
    THEN Inferred("cell", Len(obj.items) = 0, NoType, "none")
    ELSE IF obj.kind \in {"complex", "ndarray", "sparse"} /\ IsComplexDtype(obj.dtype)
    THEN Inferred("numeric", FALSE, "complex", "none")
    ELSE IF obj.kind = "sparse"
    THEN IF ~IsNumberDtype(obj.dtype) THEN UNSUPPORTED
         ELSE Inferred("numeric", obj.shape[1] * obj.shape[2] = 0, "sparse", "none")
    ELSE IF obj.kind = "dict"
    THEN Inferred("structure", Len(obj.items) = 0, NoType, "none")
    ELSE IF obj.kind = "file" THEN Inferred("file", FALSE, NoType, "none")
    ELSE IF obj.kind \in {"bool", "number"}
    THEN Inferred("numeric", FALSE, NoType, "none")
    ELSE infer_scalar_or_array(obj)

\* The ordered chain of checks, first match wins: text, array of single
\* characters, sequence, sparse matrix, complex, mapping, file-like, then the
\* remaining scalars and arrays; anything else is unsupported.
infer_record_type(obj) ==
    IF obj.kind = "str" THEN Inferred("character", Len(obj.s) = 0, NoType, "none")
    ELSE IF obj.kind = "ndarray" /\ obj.dtype = "S1"
    THEN Inferred("character", Len(obj.items) = 0, NoType, "none")
    ELSE IF obj.kind \in {"list", "tuple"}
    THEN Inferred("cell", Len(obj.items) = 0, NoType, "none")
    ELSE IF obj.kind = "sparse"
    THEN IF obj.dtype \in UNSUPPORTED_NUMERIC_TYPE_CODES THEN UNSUPPORTED
         ELSE IF ~IsNumberDtype(obj.dtype) THEN UNSUPPORTED
         ELSE Inferred("numeric", obj.shape[1] * obj.shape[2] = 0,
                       IF IsComplexDtype(obj.dtype) THEN "sparse+complex" ELSE "sparse",
                       "none")
    ELSE IF obj.kind \in {"complex", "ndarray"} /\ IsComplexDtype(obj.dtype)
    THEN infer_complex(obj)
    ELSE IF obj.kind = "dict"
    THEN Inferred("structure", Len(obj.items) = 0, NoType, "none")
    ELSE IF obj.kind = "file" THEN Inferred("file", FALSE, NoType, "none")
    ELSE infer_scalar_or_array(obj)

\* ------------------------------------------------------------------------
\* Primitive codec.  Stored data is an array of integers: scalar tells a
\* 0-dimensional dataset from a 1-dimensional one, nanmask holds the positions
\* whose value is NaN.

StoredData(scalar, elems, nanmask) ==
    [scalar |-> scalar, elems |-> elems, nanmask |-> nanmask]

coerce_character(data) == StoredData(FALSE, data.s, {})

coerce_logical(data) == StoredData(TRUE, <<IF data.b THEN 1 ELSE 0>>, {})

coerce_numeric(data) == StoredData(TRUE, <<data.n>>, IF data.nan THEN {1} ELSE {})

\* coerce_primitive: ok is FALSE when the ascii encoding of text fails
\* (UnicodeEncodeError, a ValueError).
coerce_primitive(record_type, data, extra) ==
    IF record_type = "numeric" THEN [ok |-> TRUE, data |-> coerce_numeric(data)]
    ELSE IF record_type = "logical" THEN [ok |-> TRUE, data |-> coerce_logical(data)]
    ELSE IF IsAscii(data.s) THEN [ok |-> TRUE, data |-> coerce_character(data)]
    ELSE [ok |-> FALSE, data |-> StoredData(FALSE, <<>>, {})]

extract_character(data) == Str(data.elems)

extract_logical(data) == Bool(data.elems[1] # 0)

extract_numeric(data) == IF 1 \in data.nanmask THEN NaN ELSE Num(data.elems[1])

extract_primitive(record_type, data, data_attrs) ==
    IF record_type = "numeric" THEN extract_numeric(data)
    ELSE IF record_type = "logical" THEN extract_logical(data)
    ELSE extract_character(data)

get_empty_for_type(record_type) ==
    IF record_type = "numeric" THEN [ok |-> TRUE, val |-> NaN]
    ELSE IF record_type = "character" THEN [ok |-> TRUE, val |-> Str(<<>>)]
    ELSE IF record_type = "logical" THEN [ok |-> TRUE, val |-> BoolArray(<<>>)]
    ELSE IF record_type = "cell" THEN [ok |-> TRUE, val |-> List(<<>>)]
    ELSE IF record_type = "structure" THEN [ok |-> TRUE, val |-> Dict(<<>>)]
    ELSE [ok |-> FALSE, val |-> NoneValue]

\* ------------------------------------------------------------------------
\* The backing store: groups and datasets, each with an attribute mapping.

EmptyMap == [k \in {} |-> k]

\* dict_like.update({k: v})
Put(f, k, v) == [x \in (DOMAIN f) \cup {k} |-> IF x = k THEN v ELSE f[x]]

\* dict_like.update(other)
Update(f, g) ==
    [x \in (DOMAIN f) \cup (DOMAIN g) |-> IF x \in DOMAIN g THEN g[x] ELSE f[x]]

\* del mapping[k]
Drop(f, k) == [x \in (DOMAIN f) \ {k} |-> f[x]]

Group(attrs, children) == [node |-> "group", attrs |-> attrs, children |-> children]

Dataset(attrs, data) == [node |-> "dataset", attrs |-> attrs, data |-> data]

\* ------------------------------------------------------------------------
\* Header manager.  Time stamps are the values of a logical clock that ticks
\* once per operation; the format version is text.

\* the version strings '1.0' and '1.1'
Version10 == <<49, 46, 48>>

Version11 == <<49, 46, 49>>

\* A variant of write_header that reads the clock once per time stamp.
write_header_stamped_twice(now) ==
    [FileFormat |-> "SDA", FormatVersion |-> Version11, Writable |-> "yes",
     Created |-> now, Updated |-> now + 1]

write_header(now) ==
    [FileFormat |-> "SDA", FormatVersion |-> Version11, Writable |-> "yes",
     Created |-> now, Updated |-> now]

\* A variant of update_header that rewrites Created as well.
update_header_resetting_created(attrs, now) ==
    [attrs EXCEPT !.FormatVersion = Version11, !.Updated = now, !.Created = now]

update_header(attrs, now) ==
    [attrs EXCEPT !.FormatVersion = Version11, !.Updated = now]

is_valid_writable(value) == value = "yes" \/ value = "no"

\* ------------------------------------------------------------------------
\* Insertion.  Every step returns the group it wrote to, the header, and the
\* error it raised ("none" when it returned normally) with the place of the
\* raise.

Outcome(grp, hdr, err, site) == [grp |-> grp, hdr |-> hdr, err |-> err, site |-> site]

\* The 'Empty' flag SDAFile._insert_primitive_data computes for coerced data:
\* a scalar is empty when it is NaN, an array when it has no element.
primitive_empty(data) ==
    IF data.scalar THEN (IF 1 \in data.nanmask THEN "yes" ELSE "no")
    ELSE (IF Len(data.elems) = 0 THEN "yes" ELSE "no")

\* The attributes written on the dataset of a primitive record.
primitive_data_attrs(record_type, empty) ==
    IF record_type = "numeric"
    THEN [k \in {"RecordType", "Empty", "Complex", "Sparse"} |->
             IF k = "RecordType" THEN record_type
             ELSE IF k = "Empty" THEN empty ELSE "no"]
    ELSE [k \in {"RecordType", "Empty"} |->
             IF k = "RecordType" THEN record_type ELSE empty]

\* SDAFile._insert_primitive_data: coerce, then set Empty on the group handed
\* in, create the dataset under label, and touch the header.
insert_primitive_data(grp, hdr, label, deflate, record_type, data, extra, now) ==
    LET c == coerce_primitive(record_type, data, extra)
        empty == primitive_empty(c.data)
        ds == Dataset(primitive_data_attrs(record_type, empty), c.data)
    IN  IF ~c.ok THEN Outcome(grp, hdr, "ValueError", "encode")
        ELSE Outcome(Group(Put(grp.attrs, "Empty", empty),
                           Put(grp.children, label, ds)),
                     update_header(hdr, now), "none", "none")

\* sorted((str(key), value) for key, value in data.items()): insertion of one
\* item into a sorted sequence, and the sort built on it.
RECURSIVE InsertSorted(_, _)
InsertSorted(item, sorted) ==
    IF Len(sorted) = 0 THEN <<item>>
    ELSE IF StrLess(item[1], sorted[1][1]) THEN <<item>> \o sorted
    ELSE <<sorted[1]>> \o InsertSorted(item, Tail(sorted))

RECURSIVE SortItems(_)
SortItems(items) ==
    IF Len(items) = 0 THEN <<>>
    ELSE InsertSorted(items[1], SortItems(Tail(items)))

\* The number of elements of an array of the given shape (np.prod).
RECURSIVE prod(_)
prod(shape) == IF Len(shape) = 0 THEN 1 ELSE shape[1] * prod(Tail(shape))

\* The row-major offset of the element that is number k (from 0) in
\* column-major order, for an array of the given shape.
RECURSIVE offset_of(_, _, _, _)
offset_of(k, shape, pos, acc) ==
    IF pos > Len(shape) THEN acc
    ELSE offset_of(k \div shape[pos], shape, pos + 1, acc * shape[pos] + (k % shape[pos]))

\* data.ravel(order='F'): the elements in column-major order
ravel(data) ==
    [k \in 1..prod(data.shape) |-> data.items[offset_of(k - 1, data.shape, 1, 0) + 1]]

\* The labels and values of the children of a composite value, with the
\* attributes of its group; err is the ValueError raised while preparing them.
composite_plan(record_type, data) ==
    IF record_type = "cell"
    THEN LET is_array == data.kind = "ndarray"
             record_size == IF ~is_array THEN <<1, Len(data.items)>>
                            ELSE IF Len(data.shape) = 1 THEN <<1, data.shape[1]>>
                            ELSE data.shape
             flat == IF is_array THEN ravel(data) ELSE data.items
             nr == prod(record_size)
         IN  [err |-> "none", site |-> "none",
              labels |-> [i \in 1..nr |-> cell_label(i)],
              values |-> flat,
              attrs |-> [k \in {"RecordSize", "Empty"} |->
                           IF k = "RecordSize" THEN record_size
                           ELSE IF nr = 0 THEN "yes" ELSE "no"]]
    ELSE IF record_type = "structure"
    THEN LET sorted == SortItems(data.items)
             labels == [i \in 1..Len(sorted) |-> sorted[i][1]]
             values == [i \in 1..Len(sorted) |-> sorted[i][2]]
         IN  IF Len(sorted) = 0
             THEN [err |-> "ValueError", site |-> "unpack",
                   labels |-> <<>>, values |-> <<>>, attrs |-> EmptyMap]
             ELSE IF \E i \in 1..Len(labels) : ~is_valid_matlab_field_label(labels[i])
             THEN [err |-> "ValueError", site |-> "field_label",
                   labels |-> <<>>, values |-> <<>>, attrs |-> EmptyMap]
             ELSE [err |-> "none", site |-> "none",
                   labels |-> labels, values |-> values,
                   attrs |-> [k \in {"FieldNames", "Empty"} |->
                                IF k = "FieldNames" THEN JoinSpace(labels)
                                ELSE "no"]]
    ELSE [err |-> "ValueError", site |-> "record_type",
          labels |-> <<>>, values |-> <<>>, attrs |-> EmptyMap]

\* SDAFile._insert_composite_data and its loop over the children.  The
\* backing store's answer to an attribute whose value is None (the RecordType
\* of a child of unsupported type) is not fixed by the repository: rejects
\* chooses between the store raising TypeError and the store accepting it.
RECURSIVE insert_composite_data(_, _, _, _, _, _, _)
RECURSIVE insert_children(_, _, _, _, _, _, _, _)

insert_composite_data(grp, hdr, deflate, record_type, data, now, rejects) ==
    LET plan == composite_plan(record_type, data)
    IN  IF plan.err # "none" THEN Outcome(grp, hdr, plan.err, plan.site)
        ELSE insert_children(Group(Update(grp.attrs, plan.attrs), grp.children),
                             hdr, deflate, plan.labels, plan.values, 1, now, rejects)

insert_children(grp, hdr, deflate, labels, values, i, now, rejects) ==
    IF i > Len(labels) THEN Outcome(grp, hdr, "none", "none")
    ELSE
      LET sub == infer_record_type(values[i])
      IN  IF is_primitive(sub.record_type)
          THEN LET r == insert_primitive_data(grp, hdr, labels[i], deflate,
                                              sub.record_type, values[i], sub.extra, now)
               IN  IF r.err # "none" THEN r
                   ELSE insert_children(r.grp, r.hdr, deflate, labels, values,
                                        i + 1, now, rejects)
          ELSE IF sub.record_type = NoType /\ rejects
          THEN Outcome(Group(grp.attrs,
                             Put(grp.children, labels[i], Group(EmptyMap, EmptyMap))),
                       hdr, "TypeError", "none_attribute")
          ELSE LET sub_grp == Group(Put(EmptyMap, "RecordType", sub.record_type), EmptyMap)
                   r == insert_composite_data(sub_grp, hdr, deflate, sub.record_type,
                                              values[i], now, rejects)
                   written == Group(grp.attrs, Put(grp.children, labels[i], r.grp))
               IN  IF r.err # "none" THEN Outcome(written, r.hdr, r.err, r.site)
                   ELSE insert_children(written, r.hdr, deflate, labels, values,
                                        i + 1, now, rejects)

\* ------------------------------------------------------------------------
\* Extraction.  A result is the error raised ("none" on success) and the value.

Extracted(err, val) == [err |-> err, val |-> val]

\* The longest sequence both shapes start with.
RECURSIVE common_prefix(_, _)
common_prefix(a, b) ==
    IF Len(a) = 0 \/ Len(b) = 0 \/ a[1] # b[1] THEN <<>>
    ELSE <<a[1]>> \o common_prefix(Tail(a), Tail(b))

\* np.array(data, dtype=object) of a list of extracted values: a child that is
\* itself a list is taken as a further dimension as long as all the children
\* agree on it.  nested_shape is the shape found, flatten the elements of the
\* first depth dimensions in row-major order.
RECURSIVE nested_shape(_)
RECURSIVE shared_shape(_, _)
nested_shape(children) ==
    IF Len(children) = 0 THEN <<0>>
    ELSE <<Len(children)>> \o shared_shape(children, 1)

shared_shape(children, i) ==
    LET own == IF children[i].kind = "list" THEN nested_shape(children[i].items)
               ELSE <<>>
    IN  IF i = Len(children) THEN own
        ELSE common_prefix(own, shared_shape(children, i + 1))

RECURSIVE flatten(_, _)
RECURSIVE flatten_from(_, _, _)
flatten(children, depth) ==
    IF depth <= 1 THEN children ELSE flatten_from(children, depth, 1)

flatten_from(children, depth, i) ==
    IF i > Len(children) THEN <<>>
    ELSE flatten(children[i].items, depth - 1) \o flatten_from(children, depth, i + 1)

\* array.reshape(record_size, order='F') for a record size of two dimensions:
\* the elements are read and placed in column-major order; ValueError when
\* the number of elements is not that of the record size.
reshape(array, record_size) ==
    IF prod(array.shape) # prod(record_size) THEN Extracted("ValueError", NoneValue)
    ELSE LET read == ravel(array)
         IN  Extracted("none",
                 ArrayND("object", record_size,
                         [n \in 1..prod(record_size) |->
                            LET i == (n - 1) \div record_size[2]
                                j == (n - 1) % record_size[2]
                            IN  read[i + j * record_size[1] + 1]]))

RECURSIVE extract_data_from_group(_, _)
RECURSIVE extract_composite_data(_, _, _)

\* SDAFile._extract_data_from_group
extract_data_from_group(grp, label) ==
    LET attrs == grp.attrs
    IN  IF "RecordType" \notin DOMAIN attrs THEN Extracted("KeyError", NoneValue)
        ELSE IF ~is_supported(attrs["RecordType"]) THEN Extracted("ValueError", NoneValue)
        ELSE IF "Empty" \notin DOMAIN attrs THEN Extracted("KeyError", NoneValue)
        ELSE IF attrs["Empty"] = "yes"
        THEN LET e == get_empty_for_type(attrs["RecordType"])
             IN  IF e.ok THEN Extracted("none", e.val)
                 ELSE Extracted("ValueError", NoneValue)
        ELSE IF is_primitive(attrs["RecordType"])
        THEN IF label \notin DOMAIN grp.children THEN Extracted("KeyError", NoneValue)
             ELSE LET ds == grp.children[label]
                  IN  IF ds.node # "dataset" THEN Extracted("TypeError", NoneValue)
                      ELSE Extracted("none",
                               extract_primitive(attrs["RecordType"], ds.data, ds.attrs))
        ELSE IF attrs["RecordType"] \in {"cell", "structures", "objects"}
        THEN IF "RecordSize" \notin DOMAIN attrs THEN Extracted("KeyError", NoneValue)
             ELSE LET nr == attrs["RecordSize"][1] * attrs["RecordSize"][2]
                      labels == [i \in 1..nr |-> cell_label(i)]
                      r == extract_composite_data(grp, labels, 1)
                  IN  IF r.err # "none" THEN r
                      ELSE IF attrs["RecordSize"][1] > 1
                      THEN reshape(ArrayND("object", nested_shape(r.val),
                                           flatten(r.val, Len(nested_shape(r.val)))),
                                   attrs["RecordSize"])
                      ELSE Extracted("none", List(r.val))
        ELSE IF attrs["RecordType"] \in {"structure", "object"}
        THEN IF "FieldNames" \notin DOMAIN attrs THEN Extracted("KeyError", NoneValue)
             ELSE LET labels == SplitSpace(attrs["FieldNames"])
                      r == extract_composite_data(grp, labels, 1)
                  IN  IF r.err # "none" THEN r
                      ELSE Extracted("none",
                               Dict([i \in 1..Len(labels) |-> <<labels[i], r.val[i]>>]))
        ELSE Extracted("UnboundLocalError", NoneValue)

\* SDAFile._extract_composite_data: the values of the children named by
\* labels, from position i on.
extract_composite_data(grp, labels, i) ==
    IF i > Len(labels) THEN Extracted("none", <<>>)
    ELSE IF labels[i] \notin DOMAIN grp.children THEN Extracted("KeyError", NoneValue)
    ELSE
      LET sub_obj == grp.children[labels[i]]
          element ==
            IF "RecordType" \notin DOMAIN sub_obj.attrs THEN Extracted("KeyError", NoneValue)
            ELSE IF is_primitive(sub_obj.attrs["RecordType"])
            THEN IF sub_obj.node # "dataset" THEN Extracted("TypeError", NoneValue)
                 ELSE Extracted("none", extract_primitive(sub_obj.attrs["RecordType"],
                                                         sub_obj.data, sub_obj.attrs))
            ELSE extract_data_from_group(sub_obj, labels[i])
      IN  IF element.err # "none" THEN element
          ELSE LET rest == extract_composite_data(grp, labels, i + 1)
               IN  IF rest.err # "none" THEN rest
                   ELSE Extracted("none", <<element.val>> \o rest.val)

\* ------------------------------------------------------------------------
\* Archive operations.  The archive file is its header and its top-level
\* records (label -> group); the result of an operation is the file after it,
\* the error it raised with the place of the raise, and the value returned.

WRITE_MODES == {"w", "w-", "x", "a"}

Result(hdr, recs, err, site, val) ==
    [hdr |-> hdr, recs |-> recs, err |-> err, site |-> site, val |-> val]

\* A variant of _validate_can_write that forgets the Writable flag.
validate_can_write_mode_only(mode, hdr) ==
    IF mode \notin WRITE_MODES THEN "IOError" ELSE "none"

\* SDAFile._validate_can_write
validate_can_write(mode, hdr) ==
    IF mode \notin WRITE_MODES THEN "IOError"
    ELSE IF hdr.Writable = "no" THEN "IOError"
    ELSE "none"

\* SDAFile._validate_labels over a set of labels
validate_labels(recs, labels, can_exist, must_exist) ==
    IF \E l \in labels : HasSeparator(l) THEN "ValueError"
    ELSE IF \E l \in labels : (~can_exist /\ l \in DOMAIN recs)
                                 \/ (must_exist /\ l \notin DOMAIN recs)
    THEN "ValueError"
    ELSE "none"

\* insert, lines 235-243: the checks made before anything is written.
insert_checks(mode, hdr, recs, label, data, deflate) ==
    IF validate_can_write(mode, hdr) # "none"
    THEN [err |-> "IOError", site |-> "not_writable"]
    ELSE IF validate_labels(recs, {label}, FALSE, FALSE) # "none"
    THEN [err |-> "ValueError", site |-> "label"]
    ELSE IF ~(0 <= deflate /\ deflate <= 9)
    THEN [err |-> "ValueError", site |-> "deflate"]
    ELSE IF infer_record_type(data).record_type = NoType
    THEN [err |-> "ValueError", site |-> "unsupported"]
    ELSE [err |-> "none", site |-> "none"]

\* A variant of insert that creates the group of the label before its checks.
insert_rejected_after_create(hdr, recs, label, err, site) ==
    Result(hdr, Put(recs, label, Group(EmptyMap, EmptyMap)), err, site, NoneValue)

\* A check of insert raises: the file has not been opened for writing yet.
insert_rejected(hdr, recs, label, err, site) ==
    Result(hdr, recs, err, site, NoneValue)

\* A variant of insert without the rollback of a failed composite walk.
insert_composite_unguarded(recs, label, r) == Put(recs, label, r.grp)

\* insert, lines 260-268: a ValueError out of the composite walk deletes the
\* group of the label before it propagates; any other outcome leaves what was
\* written.
insert_composite_guarded(recs, label, r) ==
    IF r.err = "ValueError" THEN Drop(Put(recs, label, r.grp), label)
    ELSE Put(recs, label, r.grp)

\* SDAFile.insert
insert(mode, hdr, recs, label, data, description, deflate, now, rejects) ==
    LET chk == insert_checks(mode, hdr, recs, label, data, deflate)
        t == infer_record_type(data)
        grp == Group([k \in {"RecordType", "Deflate", "Description"} |->
                        IF k = "RecordType" THEN t.record_type
                        ELSE IF k = "Deflate" THEN deflate ELSE description],
                     EmptyMap)
    IN  IF chk.err # "none" THEN insert_rejected(hdr, recs, label, chk.err, chk.site)
        ELSE IF is_primitive(t.record_type)
        THEN LET r == insert_primitive_data(grp, hdr, label, deflate, t.record_type,
                                            data, t.extra, now)
             IN  Result(r.hdr, Put(recs, label, r.grp), r.err, r.site, NoneValue)
        ELSE LET r == insert_composite_data(grp, hdr, deflate, t.record_type, data,
                                            now, rejects)
             IN  Result(r.hdr, insert_composite_guarded(recs, label, r),
                        r.err, r.site, NoneValue)

\* SDAFile.describe
describe(mode, hdr, recs, label, description, now) ==
    IF validate_can_write(mode, hdr) # "none"
    THEN Result(hdr, recs, "IOError", "not_writable", NoneValue)
    ELSE IF validate_labels(recs, {label}, TRUE, TRUE) # "none"
    THEN Result(hdr, recs, "ValueError", "label", NoneValue)
    ELSE Result(update_header(hdr, now),
                [recs EXCEPT ![label].attrs = Put(@, "Description", description)],
                "none", "none", NoneValue)

\* A variant of extract that touches the header after a read.
extract_touching_header(hdr, recs, label) ==
    IF validate_labels(recs, {label}, TRUE, TRUE) # "none"
    THEN Result(hdr, recs, "ValueError", "label", NoneValue)
    ELSE LET r == extract_data_from_group(recs[label], label)
         IN  Result(update_header(hdr, hdr.Updated + 1), recs, r.err,
                    IF r.err = "none" THEN "none" ELSE "read", r.val)

\* SDAFile.extract
extract(hdr, recs, label) ==
    IF validate_labels(recs, {label}, TRUE, TRUE) # "none"
    THEN Result(hdr, recs, "ValueError", "label", NoneValue)
    ELSE LET r == extract_data_from_group(recs[label], label)
         IN  Result(hdr, recs, r.err, IF r.err = "none" THEN "none" ELSE "read", r.val)

\* remove, lines 291-316: what the copy visitor creates in the destination
\* for a source object and everything below it.  Groups are created by name
\* and datasets from their data; the only attributes the visitor copies are
\* those of the file itself.
RECURSIVE copy_visitor(_)
copy_visitor(source_obj) ==
    IF source_obj.node = "group"
    THEN Group(EmptyMap,
               [c \in DOMAIN source_obj.children |-> copy_visitor(source_obj.children[c])])
    ELSE Dataset(EmptyMap, source_obj.data)

\* A variant of remove that skips the labels that are missing instead of
\* rejecting the call.
remove_skipping_missing(mode, hdr, recs, labels, now) ==
    IF validate_can_write(mode, hdr) # "none"
    THEN Result(hdr, recs, "IOError", "not_writable", NoneValue)
    ELSE IF labels = {}
    THEN Result(hdr, recs, "ValueError", "no_labels", NoneValue)
    ELSE Result(update_header(hdr, now),
                [l \in (DOMAIN recs) \ labels |-> copy_visitor(recs[l])],
                "none", "none", NoneValue)

\* SDAFile.remove
remove(mode, hdr, recs, labels, now) ==
    IF validate_can_write(mode, hdr) # "none"
    THEN Result(hdr, recs, "IOError", "not_writable", NoneValue)
    ELSE IF labels = {}
    THEN Result(hdr, recs, "ValueError", "no_labels", NoneValue)
    ELSE IF validate_labels(recs, labels, TRUE, TRUE) # "none"
    THEN Result(hdr, recs, "ValueError", "label", NoneValue)
    ELSE Result(update_header(hdr, now),
                [l \in (DOMAIN recs) \ labels |-> copy_visitor(recs[l])],
                "none", "none", NoneValue)

\* A variant of replace that inserts with the default description and deflate.
replace_with_defaults(mode, hdr, recs, label, data, now, rejects) ==
    IF validate_can_write(mode, hdr) # "none"
    THEN Result(hdr, recs, "IOError", "not_writable", NoneValue)
    ELSE IF validate_labels(recs, {label}, TRUE, TRUE) # "none"
    THEN Result(hdr, recs, "ValueError", "label", NoneValue)
    ELSE LET removed == remove(mode, hdr, recs, {label}, now)
         IN  IF removed.err # "none" THEN removed
             ELSE insert(mode, removed.hdr, removed.recs, label, data, "", 0, now, rejects)

\* SDAFile.replace: read Deflate and Description, remove, insert.
replace(mode, hdr, recs, label, data, now, rejects) ==
    IF validate_can_write(mode, hdr) # "none"
    THEN Result(hdr, recs, "IOError", "not_writable", NoneValue)
    ELSE IF validate_labels(recs, {label}, TRUE, TRUE) # "none"
    THEN Result(hdr, recs, "ValueError", "label", NoneValue)
    ELSE LET attrs == recs[label].attrs
             removed == remove(mode, hdr, recs, {label}, now)
         IN  IF removed.err # "none" THEN removed
             ELSE IF "Description" \notin DOMAIN attrs \/ "Deflate" \notin DOMAIN attrs
             THEN Result(removed.hdr, removed.recs, "KeyError", "attrs", NoneValue)
             ELSE insert(mode, removed.hdr, removed.recs, label, data,
                         attrs["Description"], attrs["Deflate"], now, rejects)

\* The setter of SDAFile.Writable
set_writable(mode, hdr, value) ==
    IF mode \notin WRITE_MODES
    THEN [hdr |-> hdr, err |-> "ValueError", site |-> "not_writable"]
    ELSE IF ~is_valid_writable(value)
    THEN [hdr |-> hdr, err |-> "ValueError", site |-> "value"]
    ELSE [hdr |-> [hdr EXCEPT !.Writable = value], err |-> "none", site |-> "none"]

\* SDAFile.__init__ on a file that exists and holds a valid archive: the mode
\* the new object gets, the file after the call, and the error raised.
open_existing(old_mode, hdr, recs, new_mode, now) ==
    IF new_mode \in {"r", "r+", "a"}
    THEN IF new_mode # "r" /\ hdr.Writable = "no"
         THEN [mode |-> old_mode, hdr |-> hdr, recs |-> recs, err |-> "IOError"]
         ELSE [mode |-> new_mode, hdr |-> hdr, recs |-> recs, err |-> "none"]
    ELSE IF new_mode = "w"
    THEN [mode |-> new_mode, hdr |-> write_header(now), recs |-> EmptyMap, err |-> "none"]
    ELSE [mode |-> old_mode, hdr |-> hdr, recs |-> recs, err |-> "IOError"]

\* ------------------------------------------------------------------------
\* The inputs of the operations.

\* the labels "x", "y" and "a/b"
LabelInputs == {<<120>>, <<121>>, <<97, 47, 98>>}

\* (description, deflate) pairs handed to insert; 10 is out of range
InsertOptions == {<<"", 0>>, <<"d", 1>>, <<"d", 10>>}

Descriptions == {"e"}

WritableInputs == {"yes", "no", "maybe"}

Modes == {"r", "r+", "w", "w-", "x", "a"}

\* a structure whose only field name is invalid
BadStructure(name) == Dict(<< <<name, Num(3)>> >>)

Vals ==
    << Num(3),
       NaN,
       Str(<<233>>),
       NoneValue,
       List(<<>>),
       List(<<Bool(TRUE), Str(<<97>>)>>),
       Dict(<<>>),
       Dict(<< <<(<<98>>), Num(3)>>, <<(<<97>>), List(<<Str(<<>>)>>)>> >>),
       BadStructure(<<48, 97>>),
       List(<<Num(3), List(<<BadStructure(<<97, 32>>)>>)>>),
       List(<<Num(3), NoneValue>>),
       List(<<NaN>>) >>

\* Whether a value has a child, at any depth, of a type that is not supported.
RECURSIVE HasUnsupportedChild(_)
HasUnsupportedChild(data) ==
    IF data.kind = "list"
    THEN \E i \in 1..Len(data.items) :
            \/ infer_record_type(data.items[i]).record_type = NoType
            \/ HasUnsupportedChild(data.items[i])
    ELSE IF data.kind = "dict"
    THEN \E i \in 1..Len(data.items) :
            \/ infer_record_type(data.items[i][2]).record_type = NoType
            \/ HasUnsupportedChild(data.items[i][2])
    ELSE FALSE

\* The answers of the backing store to a None attribute that an insertion of
\* data can meet: both, when data has a child that gets such an attribute.
StoreAnswers(data) == IF HasUnsupportedChild(data) THEN BOOLEAN ELSE {TRUE}

\* ------------------------------------------------------------------------
\* The state: the mode of the SDAFile object, the archive file (header and
\* top-level records), the logical clock, and the last call with its outcome;
\* whether the archive file exists on disk; and the progress of a remove that
\* is followed step by step (RemoveIdle when none is); the module-level table
\* of empty values of utils (the objects it holds are shared by every caller);
\* and the call of a helper of utils under examination, with its result.

VARIABLES mode, hdr, recs, clock, last, file_exists, rm, empties, call

vars == <<mode, hdr, recs, clock, last, file_exists, rm, empties, call>>

\* EMPTY_FOR_TYPE: the composite entries, as the module is loaded.
EMPTY_FOR_TYPE == [cell |-> List(<<>>), structure |-> Dict(<<>>)]

\* No helper call under examination.
NoCall == [fn |-> "none"]

\* No remove in progress: no replacement file, no open handle.
RemoveIdle ==
    [pc |-> "idle", labels |-> {}, todo |-> {}, dest_hdr |-> EmptyMap,
     dest_recs |-> EmptyMap, handles |-> {}]

\* rtype is the record type inferred for the value handed to insert or replace
\* ("n/a" for the other operations).
Call(op, labels, rtype, err, site) ==
    [op |-> op, labels |-> labels, rtype |-> rtype, err |-> err, site |-> site]

\* A version 1.0 archive without records, as another producer leaves it.
LegacyHeader(writable) ==
    [FileFormat |-> "SDA", FormatVersion |-> Version10, Writable |-> writable,
     Created |-> 0, Updated |-> 0]

\* An archive an earlier session left behind: a numeric record under "x" and
\* a cell record under "y", written by insert.
Populated ==
    LET first == insert("w", write_header(0), EmptyMap, <<120>>, Num(3), "d", 1, 0, TRUE)
    IN  insert("w", first.hdr, first.recs, <<121>>,
               List(<<Bool(TRUE), Str(<<97>>)>>), "", 0, 0, TRUE)

\* The state after construction: a new archive was created (modes w, w-, x,
\* a), or an existing archive was opened (r, r+, a): the legacy one, or the
\* populated one; only mode r opens an archive whose Writable flag is "no".
Init ==
    /\ clock = 0
    /\ last = Call("init", {}, "n/a", "none", "none")
    /\ file_exists = TRUE
    /\ rm = RemoveIdle
    /\ empties = EMPTY_FOR_TYPE
    /\ call = NoCall
    /\ \/ /\ mode \in {"w", "w-", "x", "a"}
          /\ hdr = write_header(0)
          /\ recs = EmptyMap
       \/ /\ mode \in {"r", "r+", "a"}
          /\ \E writable \in {"yes", "no"} :
                /\ mode # "r" => writable # "no"
                /\ \/ hdr = LegacyHeader(writable) /\ recs = EmptyMap
                   \/ /\ hdr = [Populated.hdr EXCEPT !.Writable = writable]
                      /\ recs = Populated.recs

\* An operation starts when no other is in progress, and advances the clock.
Tick == rm.pc = "idle" /\ clock < MaxOps /\ clock' = clock + 1

Apply(op, labels, rtype, r) ==
    /\ hdr' = r.hdr
    /\ recs' = r.recs
    /\ last' = Call(op, labels, rtype, r.err, r.site)
    /\ UNCHANGED <<mode, file_exists, rm, empties, call>>

Insert ==
    /\ Tick
    /\ \E label \in LabelInputs, v \in 1..Len(Vals), opt \in InsertOptions :
       \E rejects \in StoreAnswers(Vals[v]) :
          Apply("insert", {label}, infer_record_type(Vals[v]).record_type,
                insert(mode, hdr, recs, label, Vals[v], opt[1], opt[2], clock', rejects))

Describe ==
    /\ Tick
    /\ \E label \in LabelInputs, description \in Descriptions :
          Apply("describe", {label}, "n/a",
                describe(mode, hdr, recs, label, description, clock'))

Extract ==
    /\ Tick
    /\ \E label \in LabelInputs :
          Apply("extract", {label}, "n/a", extract(hdr, recs, label))

Remove ==
    /\ Tick
    /\ \E labels \in SUBSET LabelInputs :
          Apply("remove", labels, "n/a", remove(mode, hdr, recs, labels, clock'))

Replace ==
    /\ Tick
    /\ \E label \in LabelInputs, v \in 1..Len(Vals) :
       \E rejects \in StoreAnswers(Vals[v]) :
          Apply("replace", {label}, infer_record_type(Vals[v]).record_type,
                replace(mode, hdr, recs, label, Vals[v], clock', rejects))

SetWritable ==
    /\ Tick
    /\ \E value \in WritableInputs :
          LET r == set_writable(mode, hdr, value)
          IN  /\ hdr' = r.hdr
              /\ last' = Call("set_writable", {}, "n/a", r.err, r.site)
    /\ UNCHANGED <<mode, recs, file_exists, rm, empties, call>>

Open ==
    /\ Tick
    /\ \E new_mode \in Modes :
          LET r == open_existing(mode, hdr, recs, new_mode, clock')
          IN  /\ mode' = r.mode
              /\ hdr' = r.hdr
              /\ recs' = r.recs
              /\ last' = Call("open", {}, "n/a", r.err, "none")
    /\ UNCHANGED <<file_exists, rm, empties, call>>

Next == Insert \/ Describe \/ Extract \/ Remove \/ Replace \/ SetWritable \/ Open

Spec == Init /\ [][Next]_vars

\* ------------------------------------------------------------------------
\* remove followed step by step: the checks, the replacement file created and
\* opened, the source opened and the file attributes copied, the kept records
\* copied one by one, the header of the replacement touched, the replacement
\* closed, and the move over the original.  handles is the set of store
\* handles the call holds open.

\* remove, lines 281-286: the checks made before the replacement is created.
remove_checks(file_mode, attrs, source, labels) ==
    IF validate_can_write(file_mode, attrs) # "none"
    THEN [err |-> "IOError", site |-> "not_writable"]
    ELSE IF labels = {}
    THEN [err |-> "ValueError", site |-> "no_labels"]
    ELSE IF validate_labels(source, labels, TRUE, TRUE) # "none"
    THEN [err |-> "ValueError", site |-> "label"]
    ELSE [err |-> "none", site |-> "none"]

\* remove, lines 318-320: mkstemp and h5py.File(destination_path, 'w').
remove_create(labels) ==
    [pc |-> "created", labels |-> labels, todo |-> {}, dest_hdr |-> EmptyMap,
     dest_recs |-> EmptyMap, handles |-> {"destination"}]

\* remove, lines 321-322: the source is opened read-only and the attributes
\* of the file are copied; the visit has every top-level record ahead.
remove_open_source(r, attrs, source) ==
    [r EXCEPT !.pc = "copying", !.todo = DOMAIN source, !.dest_hdr = attrs,
              !.handles = @ \cup {"source"}]

\* The record the visit reaches next: the least label not visited yet.
next_visited(todo) == CHOOSE l \in todo : \A k \in todo \ {l} : StrLess(l, k)

\* remove, lines 291-316 and 323: the visit of one top-level record and what
\* is below it; an excluded label is skipped.
remove_visit(r, attrs, source, l) ==
    [r EXCEPT !.todo = @ \ {l},
              !.dest_hdr = attrs,
              !.dest_recs = IF l \in r.labels THEN @ ELSE Put(@, l, copy_visitor(source[l]))]

\* A variant of the header touch of remove that touches the original file.
remove_touch_header_in_place(file_hdr, dest_hdr, now) ==
    [file |-> update_header(file_hdr, now), dest |-> dest_hdr]

\* remove, line 324: update_header(destination.attrs).
remove_touch_header(file_hdr, dest_hdr, now) ==
    [file |-> file_hdr, dest |-> update_header(dest_hdr, now)]

RemoveBegin ==
    /\ Tick
    /\ \E labels \in SUBSET LabelInputs :
          LET chk == remove_checks(mode, hdr, recs, labels)
          IN  /\ rm' = IF chk.err = "none" THEN remove_create(labels) ELSE RemoveIdle
              /\ last' = Call("remove", labels, "n/a",
                              IF chk.err = "none" THEN "running" ELSE chk.err, chk.site)
    /\ UNCHANGED <<mode, hdr, recs, file_exists, empties, call>>

RemoveOpenSource ==
    /\ rm.pc = "created"
    /\ rm' = remove_open_source(rm, hdr, recs)
    /\ UNCHANGED <<mode, hdr, recs, clock, last, file_exists, empties, call>>

RemoveVisit ==
    /\ rm.pc = "copying"
    /\ rm.todo # {}
    /\ rm' = remove_visit(rm, hdr, recs, next_visited(rm.todo))
    /\ UNCHANGED <<mode, hdr, recs, clock, last, file_exists, empties, call>>

\* The visit is over: the source is closed by its context manager, and the
\* header of the replacement is touched.
RemoveTouch ==
    /\ rm.pc = "copying"
    /\ rm.todo = {}
    /\ LET t == remove_touch_header(hdr, rm.dest_hdr, clock)
       IN  /\ hdr' = t.file
           /\ rm' = [rm EXCEPT !.pc = "touched", !.dest_hdr = t.dest,
                               !.handles = @ \ {"source"}]
    /\ UNCHANGED <<mode, recs, clock, last, file_exists, empties, call>>

\* destination.close()
RemoveClose ==
    /\ rm.pc = "touched"
    /\ rm' = [rm EXCEPT !.pc = "closed", !.handles = @ \ {"destination"}]
    /\ UNCHANGED <<mode, hdr, recs, clock, last, file_exists, empties, call>>

\* shutil.move(destination_path, self._filename)
RemoveMove ==
    /\ rm.pc = "closed"
    /\ hdr' = rm.dest_hdr
    /\ recs' = rm.dest_recs
    /\ rm' = [RemoveIdle EXCEPT !.handles = rm.handles]
    /\ last' = Call("remove", rm.labels, "n/a", "none", "none")
    /\ UNCHANGED <<mode, clock, file_exists, empties, call>>

\* The store raises while a record is copied into the replacement (an I/O
\* error): the context manager closes the source, and the exception leaves
\* remove; nothing closes the destination.
RemoveRaise ==
    /\ rm.pc = "copying"
    /\ rm.todo # {}
    /\ rm' = [RemoveIdle EXCEPT !.handles = rm.handles \ {"source"}]
    /\ last' = Call("remove", rm.labels, "n/a", "IOError", "copy")
    /\ UNCHANGED <<mode, hdr, recs, clock, file_exists, empties, call>>

\* The process dies in the middle of remove: its handles go with it, and the
\* replacement is never moved over the original.
Crash ==
    /\ rm.pc \in {"created", "copying", "touched", "closed"}
    /\ rm' = RemoveIdle
    /\ last' = Call("remove", rm.labels, "n/a", "crash", "crash")
    /\ UNCHANGED <<mode, hdr, recs, clock, file_exists, empties, call>>

NextRemove ==
    \/ RemoveBegin \/ RemoveOpenSource \/ RemoveVisit \/ RemoveTouch
    \/ RemoveClose \/ RemoveMove \/ RemoveRaise \/ Crash
    \/ Insert \/ Describe

SpecRemove == Init /\ [][NextRemove]_vars

\* ------------------------------------------------------------------------
\* Opening a file: the header checks of the constructor.  The attributes of a
\* file found on disk are a mapping that may lack any of the five header
\* attributes.  A date is a reading of the clock; a text that does not parse
\* as a date is a negative number.

is_valid_file_format(value) == value = "SDA"

\* The longest run of digits of s from position i on (the greedy \d+).
RECURSIVE DigitRun(_, _)
DigitRun(s, i) ==
    IF i <= Len(s) /\ IsAsciiDigit(s[i]) THEN <<s[i]>> \o DigitRun(s, i + 1)
    ELSE <<>>

\* int(digits)
RECURSIVE ToInt(_)
ToInt(digits) ==
    IF Len(digits) = 0 THEN 0
    ELSE 10 * ToInt(SubSeq(digits, 1, Len(digits) - 1)) + (digits[Len(digits)] - 48)

\* VERSION_1_RE.match(value): '1', '.', and one or more digits at the start
\* of value; the version is valid when the number the digits spell is 0 or 1.
is_valid_format_version(value) ==
    /\ Len(value) >= 3
    /\ value[1] = 49
    /\ value[2] = 46
    /\ IsAsciiDigit(value[3])
    /\ LET sub == ToInt(DigitRun(value, 3)) IN 0 <= sub /\ sub <= 1

is_valid_date(date_str) == date_str >= 0

\* error_if_bad_attr: the attribute is missing, or its value is not valid.
error_if_bad_attr(attrs, attr, valid) == attr \notin DOMAIN attrs \/ ~valid

\* error_if_bad_header: the five attributes, checked in order.
error_if_bad_header(attrs) ==
    IF error_if_bad_attr(attrs, "FileFormat",
                         "FileFormat" \in DOMAIN attrs /\ is_valid_file_format(attrs.FileFormat))
    THEN "BadSDAFile"
    ELSE IF error_if_bad_attr(attrs, "FormatVersion",
                         "FormatVersion" \in DOMAIN attrs
                            /\ is_valid_format_version(attrs.FormatVersion))
    THEN "BadSDAFile"
    ELSE IF error_if_bad_attr(attrs, "Writable",
                         "Writable" \in DOMAIN attrs /\ is_valid_writable(attrs.Writable))
    THEN "BadSDAFile"
    ELSE IF error_if_bad_attr(attrs, "Created",
                         "Created" \in DOMAIN attrs /\ is_valid_date(attrs.Created))
    THEN "BadSDAFile"
    ELSE IF error_if_bad_attr(attrs, "Updated",
                         "Updated" \in DOMAIN attrs /\ is_valid_date(attrs.Updated))
    THEN "BadSDAFile"
    ELSE "none"

error_if_not_writable(attrs) ==
    IF "Writable" \in DOMAIN attrs /\ attrs.Writable = "no" THEN "IOError" ELSE "none"

\* The outcome of a constructor call: the mode of the object (the old one when
\* the call raises), whether the file exists, the file, and the error.
Opened(object_mode, exists, attrs, records, err) ==
    [mode |-> object_mode, exists |-> exists, hdr |-> attrs, recs |-> records,
     err |-> err]

\* SDAFile.__init__
open_file(old_mode, exists, attrs, records, new_mode, now) ==
    IF new_mode \in {"r", "r+"} /\ ~exists
    THEN Opened(old_mode, exists, attrs, records, "IOError")
    ELSE IF new_mode \in {"r", "r+"} \/ (exists /\ new_mode = "a")
    THEN IF error_if_bad_header(attrs) # "none"
         THEN Opened(old_mode, exists, attrs, records, "BadSDAFile")
         ELSE IF new_mode # "r" /\ error_if_not_writable(attrs) # "none"
         THEN Opened(old_mode, exists, attrs, records, "IOError")
         ELSE Opened(new_mode, exists, attrs, records, "none")
    ELSE IF new_mode \in {"w-", "x"} /\ exists
    THEN Opened(old_mode, exists, attrs, records, "IOError")
    ELSE Opened(new_mode, TRUE, write_header(now), EmptyMap, "none")

\* The headers found on disk: a valid one, and the ones that differ from it
\* in one attribute, changed or missing.
ValidHeader == write_header(0)

\* '1.2', '2.0', '1.0x', '1.01', '1.10', '1.'
VersionInputs ==
    {Version10, <<49, 46, 50>>, <<50, 46, 48>>, <<49, 46, 48, 120>>,
     <<49, 46, 48, 49>>, <<49, 46, 49, 48>>, <<49, 46>>}

HeaderCandidates ==
    {ValidHeader}
    \cup {Drop(ValidHeader, a) : a \in DOMAIN ValidHeader}
    \cup {[ValidHeader EXCEPT !.FileFormat = "SDB"]}
    \cup {[ValidHeader EXCEPT !.FormatVersion = v] : v \in VersionInputs}
    \cup {[ValidHeader EXCEPT !.Writable = w] : w \in {"no", "maybe"}}
    \cup {[ValidHeader EXCEPT !.Created = -1], [ValidHeader EXCEPT !.Updated = -1]}

\* Before the constructor is called there is no object; the file is missing,
\* or it is on disk with some header, without records or with those of the
\* populated archive.
InitOpen ==
    /\ clock = 0
    /\ last = Call("init", {}, "n/a", "none", "none")
    /\ rm = RemoveIdle
    /\ empties = EMPTY_FOR_TYPE
    /\ call = NoCall
    /\ mode = "none"
    /\ \/ file_exists = FALSE /\ hdr = EmptyMap /\ recs = EmptyMap
       \/ /\ file_exists = TRUE
          /\ hdr \in HeaderCandidates
          /\ recs \in {EmptyMap, Populated.recs}

OpenFile ==
    /\ Tick
    /\ \E new_mode \in Modes :
          LET r == open_file(mode, file_exists, hdr, recs, new_mode, clock')
          IN  /\ mode' = r.mode
              /\ file_exists' = r.exists
              /\ hdr' = r.hdr
              /\ recs' = r.recs
              /\ last' = Call("open", {}, "n/a", r.err, "none")
    /\ UNCHANGED <<rm, empties, call>>

NextOpen == OpenFile

SpecOpen == InitOpen /\ [][NextOpen]_vars

\* ------------------------------------------------------------------------
\* The helpers of utils called on their own.  A call is the helper, the
\* family of its argument, the argument, and the result.  The helpers that
\* read no state are called once, from the initial state; get_empty_for_type
\* reads the module-level table and is called again and again.

HelperCall(fn, family, arg, out) ==
    [fn |-> fn, family |-> family, arg |-> arg, out |-> out]

\* The values handed to infer_record_type, each with its family; an object
\* with a read method, a set and a callable are records of their kind alone.
InferInputs ==
    << <<"text", Str(<<97>>)>>,
       <<"text", Str(<<>>)>>,
       <<"char_array", Array("S1", <<97, 98>>)>>,
       <<"sequence", List(<<>>)>>,
       <<"sequence", List(<<Num(3), Bool(TRUE)>>)>>,
       <<"sequence", Tuple(<<Complex(Num(1), Num(2))>>)>>,
       <<"sequence", List(<<NoneValue>>)>>,
       <<"sparse", Sparse("float64", <<2, 3>>, << <<0, 0, Num(5)>> >>)>>,
       <<"sparse", Sparse("complex128", <<2, 2>>, << <<1, 1, Complex(Num(1), Num(2))>> >>)>>,
       <<"sparse", Sparse("float16", <<2, 2>>, << <<0, 0, Num(5)>> >>)>>,
       <<"sparse", Sparse("bool", <<2, 2>>, << <<0, 0, Bool(TRUE)>> >>)>>,
       <<"sparse", Sparse("float64", <<0, 3>>, <<>>)>>,
       <<"complex", Complex(Num(1), Num(2))>>,
       <<"complex", Complex(NaN, NaN)>>,
       <<"complex", Complex(NaN, Num(2))>>,
       <<"complex", Complex(Num(1), NaN)>>,
       <<"complex", Array("complex128", <<Complex(NaN, NaN), Complex(NaN, NaN)>>)>>,
       <<"complex", Array("complex128", <<Complex(NaN, Num(1)), Complex(NaN, NaN)>>)>>,
       <<"complex", Array("complex128", <<Complex(Num(1), NaN), Complex(NaN, NaN)>>)>>,
       <<"complex", Array("complex128", <<Complex(Num(1), Num(2)), Complex(Num(3), Num(4))>>)>>,
       <<"complex_unsupported", Array("complex256", <<Complex(Num(1), Num(1))>>)>>,
       <<"mapping", Dict(<<>>)>>,
       <<"mapping", Dict(<< <<(<<97>>), Num(3)>> >>)>>,
       <<"mapping_nonstring_keys", Dict(<< <<Num(0), Num(0)>> >>)>>,
       <<"mapping_nonstring_keys", Dict(<< <<Bool(TRUE), Num(1)>> >>)>>,
       <<"file", [kind |-> "file"]>>,
       <<"boolean", Bool(TRUE)>>,
       <<"boolean", Bool(FALSE)>>,
       <<"boolean", Array("bool", <<Bool(TRUE), Bool(FALSE)>>)>>,
       <<"boolean", Array("bool", <<>>)>>,
       <<"number", Num(3)>>,
       <<"number", NaN>>,
       <<"number", Array("float64", <<Num(1), NaN>>)>>,
       <<"number", Array("float64", <<NaN>>)>>,
       <<"number", Array("int64", <<Num(1)>>)>>,
       <<"number_unsupported", Array("float16", <<Num(1)>>)>>,
       <<"object_array", Array("object", <<Num(1), Str(<<97>>)>>)>>,
       <<"other", NoneValue>>,
       <<"other", [kind |-> "set"]>>,
       <<"other", [kind |-> "function"]>> >>

\* Nothing is stored and no object is open while a helper is called alone.
InitUtils ==
    /\ clock = 0
    /\ last = Call("init", {}, "n/a", "none", "none")
    /\ rm = RemoveIdle
    /\ mode = "none"
    /\ file_exists = FALSE
    /\ hdr = EmptyMap
    /\ recs = EmptyMap
    /\ empties = EMPTY_FOR_TYPE
    /\ call = NoCall

InferRecordType ==
    /\ call.fn = "none"
    /\ \E i \in 1..Len(InferInputs) :
          call' = HelperCall("infer_record_type", InferInputs[i][1], InferInputs[i][2],
                             infer_record_type(InferInputs[i][2]))
    /\ UNCHANGED <<mode, hdr, recs, clock, last, file_exists, rm, empties>>

\* ------------------------------------------------------------------------
\* Sparse matrices to and from their stored form.

\* coerce_sparse: rows, columns and values, 1-based; the shape is not kept
coerce_sparse(data) ==
    [row |-> [k \in 1..Len(data.entries) |-> data.entries[k][1] + 1],
     col |-> [k \in 1..Len(data.entries) |-> data.entries[k][2] + 1],
     data |-> [k \in 1..Len(data.entries) |-> data.entries[k][3]]]

\* coerce_sparse_complex: the 1-based index of each entry, ravelled in
\* row-major order (np.ravel_multi_index), over the real parts and the
\* imaginary parts of the values (coerce_complex)
coerce_sparse_complex(data) ==
    [index |-> [k \in 1..Len(data.entries) |->
                   data.entries[k][1] * data.shape[2] + data.entries[k][2] + 1],
     re |-> [k \in 1..Len(data.entries) |-> data.entries[k][3][1]],
     im |-> [k \in 1..Len(data.entries) |-> data.entries[k][3][2]]]

\* coo_matrix((data, (row, col))) called without a shape: the shape is
\* inferred as one more than the largest row and the largest column, and
\* cannot be inferred when there is no entry
coo_matrix(dtype, data, row, col) ==
    LET largest(values) ==
            CHOOSE x \in {values[k] : k \in 1..Len(values)} :
                \A k \in 1..Len(values) : values[k] <= x
    IN  IF Len(row) = 0
        THEN Extracted("ValueError", NoneValue)
        ELSE Extracted("none",
                       Sparse(dtype, <<largest(row) + 1, largest(col) + 1>>,
                              [k \in 1..Len(row) |-> <<row[k], col[k], data[k]>>]))

\* extract_sparse: back to 0-based positions, then coo_matrix
extract_sparse(stored) ==
    coo_matrix("float64", stored.data,
               [k \in 1..Len(stored.row) |-> stored.row[k] - 1],
               [k \in 1..Len(stored.col) |-> stored.col[k] - 1])

\* extract_sparse_complex: the values are put together again
\* (extract_complex) and the index is unravelled with the persisted shape
\* (np.unravel_index), but the matrix is again built without the shape
extract_sparse_complex(stored, shape) ==
    coo_matrix("complex128",
               [k \in 1..Len(stored.index) |-> <<stored.re[k], stored.im[k]>>],
               [k \in 1..Len(stored.index) |-> (stored.index[k] - 1) \div shape[2]],
               [k \in 1..Len(stored.index) |-> (stored.index[k] - 1) % shape[2]])

\* The sparse matrices tried: shapes up to 3 x 2 with at most two entries,
\* kept in row-major order of their positions; the first entry has one of the
\* values given, the second entry the value second.
SparseInputs(dtype, values, second) ==
    LET positions(shape) ==
            {<<i, j>> : i \in 0..(shape[1] - 1), j \in 0..(shape[2] - 1)}
        before(p, q) == p[1] < q[1] \/ (p[1] = q[1] /\ p[2] < q[2])
        entries(shape) ==
            {<<>>}
            \cup {<< <<p[1], p[2], v>> >> : p \in positions(shape), v \in values}
            \cup {<< <<pq[1][1], pq[1][2], v>>, <<pq[2][1], pq[2][2], second>> >> :
                    pq \in {x \in positions(shape) \X positions(shape) : before(x[1], x[2])},
                    v \in values}
    IN  UNION {{Sparse(dtype, shape, e) : e \in entries(shape)} :
                  shape \in {<<1, 1>>, <<2, 2>>, <<2, 3>>, <<3, 2>>}}

\* A sparse matrix, real or complex, is coerced to its stored form and
\* extracted again, the complex one with its persisted shape.
SparseRoundTrip ==
    /\ call.fn = "none"
    /\ \/ \E m \in SparseInputs("float64", {5, 7}, 3) :
             call' = HelperCall("extract_sparse", "sparse", m,
                                extract_sparse(coerce_sparse(m)))
       \/ \E m \in SparseInputs("complex128", {<<1, 2>>, <<0, 4>>}, <<3, 0>>) :
             call' = HelperCall("extract_sparse_complex", "sparse_complex", m,
                                extract_sparse_complex(coerce_sparse_complex(m), m.shape))
    /\ UNCHANGED <<mode, hdr, recs, clock, last, file_exists, rm, empties>>

\* ------------------------------------------------------------------------
\* Cell records written to a new archive and read back.

\* The cells tried, each with its family: arrays of children of two
\* dimensions, arrays of one dimension, and flat sequences.
CellInputs ==
    << <<"cell_array", ArrayND("object", <<2, 2>>,
                               <<Num(1), Str(<<97>>), Bool(TRUE), Num(4)>>)>>,
       <<"cell_array", ArrayND("object", <<2, 3>>,
                               <<Num(1), Num(2), Num(3), Num(4), Num(5), Num(6)>>)>>,
       <<"cell_array", ArrayND("object", <<3, 1>>, <<Num(1), Num(2), Str(<<98>>)>>)>>,
       <<"cell_array", ArrayND("object", <<1, 3>>, <<Num(1), Num(2), Num(3)>>)>>,
       <<"cell_array", ArrayND("object", <<2, 1>>,
                               <<Dict(<< <<(<<97>>), Num(1)>> >>), List(<<Num(2)>>)>>)>>,
       <<"cell_array", ArrayND("object", <<2, 1>>,
                               <<List(<<Num(1)>>), List(<<Num(2)>>)>>)>>,
       <<"cell_array", ArrayND("object", <<2, 2>>,
                               <<List(<<Num(1), Num(2)>>), List(<<Num(3), Num(4)>>),
                                 List(<<Num(5), Num(6)>>), List(<<Num(7), Num(8)>>)>>)>>,
       <<"flat_array", Array("object", <<Num(1), Str(<<97>>)>>)>>,
       <<"flat_sequence", List(<<Num(1), Str(<<97>>), Bool(FALSE)>>)>>,
       <<"flat_sequence", List(<<List(<<Num(1)>>), List(<<Num(2)>>)>>)>>,
       <<"flat_sequence", Tuple(<<Num(1), Num(2)>>)>> >>

\* SDAFile(path, 'w').insert(label, data) and then extract(label): the error
\* of the insert, the record group it stored, and what extract gave.
insert_then_extract(label, data) ==
    LET r == insert("w", write_header(0), EmptyMap, label, data, "", 0, 1, TRUE)
    IN  IF r.err # "none"
        THEN [err |-> r.err, grp |-> NoneValue, extracted |-> Extracted("none", NoneValue)]
        ELSE LET e == extract(r.hdr, r.recs, label)
             IN  [err |-> "none", grp |-> r.recs[label],
                  extracted |-> Extracted(e.err, e.val)]

CellRoundTrip ==
    /\ call.fn = "none"
    /\ \E i \in 1..Len(CellInputs), label \in LabelInputs :
          validate_labels(EmptyMap, {label}, FALSE, FALSE) = "none"
          /\ call' = HelperCall("insert_then_extract", CellInputs[i][1], CellInputs[i][2],
                                insert_then_extract(label, CellInputs[i][2]))
    /\ UNCHANGED <<mode, hdr, recs, clock, last, file_exists, rm, empties>>

\* ------------------------------------------------------------------------
\* Signatures: the (path, record type) pairs of a value or of a stored record.

SIMPLE_RECORD_TYPES == {"character", "logical", "numeric", "file"}

STRUCTURE_EQUIVALENT == {"structure", "object"}

CELL_EQUIVALENT == {"cell", "objects", "structures"}

are_record_types_equivalent(rt1, rt2) ==
    \/ rt1 = rt2
    \/ rt1 \in STRUCTURE_EQUIVALENT /\ rt2 \in STRUCTURE_EQUIVALENT
    \/ rt1 \in CELL_EQUIVALENT /\ rt2 \in CELL_EQUIVALENT

\* zip(sig1, sig2) pairs the entries up to the length of the shorter
\* signature; the first pair that differs decides, and True is returned when
\* the pairs run out.
are_signatures_equivalent(sig1, sig2) ==
    LET n == IF Len(sig1) < Len(sig2) THEN Len(sig1) ELSE Len(sig2)
    IN  \A k \in 1..n :
           /\ sig1[k][1] = sig2[k][1]
           /\ are_record_types_equivalent(sig1[k][2], sig2[k][2])

\* "/".join((parent, key)).lstrip("/")
RECURSIVE lstrip_slash(_)
lstrip_slash(text) ==
    IF Len(text) > 0 /\ text[1] = 47 THEN lstrip_slash(Tail(text)) ELSE text

\* An item of the work list of unnest and unnest_record.
Item(path, record_type, obj) == [path |-> path, record_type |-> record_type, obj |-> obj]

\* The (key, child) pairs unnest takes from an item: the sorted items of a
\* mapping, or the children of a cell numbered by enumerate, which counts
\* from 0.  (For a record type that is neither, the loop leaves sub_items as
\* it was; no value with a component of unsupported type is unnested here.)
sub_items(item) ==
    IF are_record_types_equivalent(item.record_type, "structure")
    THEN SortItems(item.obj.items)
    ELSE IF are_record_types_equivalent(item.record_type, "cell")
    THEN [i \in 1..Len(item.obj.items) |-> <<cell_label(i - 1), item.obj.items[i]>>]
    ELSE <<>>

\* sorted(obj.keys())
RECURSIVE sorted_keys(_)
sorted_keys(keys) ==
    IF keys = {} THEN <<>>
    ELSE LET first == CHOOSE x \in keys : \A y \in keys \ {x} : StrLess(x, y)
         IN  <<first>> \o sorted_keys(keys \ {first})

\* get_record_type: the RecordType attribute, None when there is none
get_record_type(node) ==
    IF "RecordType" \in DOMAIN node.attrs THEN node.attrs["RecordType"] ELSE NoType

\* The items the loops of unnest (stored FALSE: item.obj is a value) and of
\* unnest_record (stored TRUE: item.obj is a group or a dataset on file)
\* append for one item: none for a simple record type, else one for each child
\* with its path and its record type.
appended_for(item, stored) ==
    IF item.record_type \in SIMPLE_RECORD_TYPES THEN <<>>
    ELSE IF stored
    THEN LET keys == sorted_keys(DOMAIN item.obj.children)
         IN  [k \in 1..Len(keys) |->
                Item(lstrip_slash(item.path \o <<47>> \o keys[k]),
                     get_record_type(item.obj.children[keys[k]]),
                     item.obj.children[keys[k]])]
    ELSE LET subs == sub_items(item)
         IN  [k \in 1..Len(subs) |->
                Item(lstrip_slash(item.path \o <<47>> \o subs[k][1]),
                     infer_record_type(subs[k][2]).record_type, subs[k][2])]

\* The loops run over a list that grows while it is read, so the items come
\* out breadth first: a level of the tree, then what was appended for each
\* of its items in order, and so on.
RECURSIVE appended_from(_, _, _)
appended_from(level, k, stored) ==
    IF k > Len(level) THEN <<>>
    ELSE appended_for(level[k], stored) \o appended_from(level, k + 1, stored)

RECURSIVE breadth_first(_, _)
breadth_first(level, stored) ==
    IF Len(level) = 0 THEN <<>>
    ELSE level \o breadth_first(appended_from(level, 1, stored), stored)

\* The signature of a work list: item[:2] of every item.
signature_of(items) == [k \in 1..Len(items) |-> <<items[k].path, items[k].record_type>>]

\* unnest
unnest(data) ==
    signature_of(breadth_first(<<Item(<<>>, infer_record_type(data).record_type, data)>>,
                               FALSE))

\* unnest_record
unnest_record(grp) ==
    signature_of(breadth_first(<<Item(<<>>, get_record_type(grp), grp)>>, TRUE))

\* The values unnested, each with its family: with a cell somewhere in it, or
\* without any.
UnnestInputs ==
    << <<"with_cell", List(<<>>)>>,
       <<"with_cell", List(<<Num(1)>>)>>,
       <<"with_cell", List(<<Num(1), Str(<<97>>), Bool(TRUE)>>)>>,
       <<"with_cell", List(<<List(<<Num(1)>>), Num(2)>>)>>,
       <<"with_cell", Dict(<< <<(<<98>>), Num(3)>>, <<(<<97>>), List(<<Str(<<99>>)>>)>> >>)>>,
       <<"with_cell", List(<<Dict(<< <<(<<97>>), Num(1)>> >>)>>)>>,
       <<"without_cell", Num(3)>>,
       <<"without_cell", Str(<<97>>)>>,
       <<"without_cell", Dict(<< <<(<<98>>), Num(3)>>, <<(<<97>>), Bool(FALSE)>> >>)>>,
       <<"without_cell", Dict(<< <<(<<97>>), Dict(<< <<(<<98>>), Num(1)>> >>)>> >>)>> >>

\* unnest of a value, unnest_record of the record group inserted from it into
\* a new archive, and whether the two signatures are equivalent.
UnnestValueAndRecord ==
    /\ call.fn = "none"
    /\ \E i \in 1..Len(UnnestInputs), label \in LabelInputs :
          /\ validate_labels(EmptyMap, {label}, FALSE, FALSE) = "none"
          /\ \E stored \in {insert_then_extract(label, UnnestInputs[i][2])} :
             \E data_sig \in {unnest(UnnestInputs[i][2])} :
             \E record_sig \in {IF stored.err = "none" THEN unnest_record(stored.grp)
                                ELSE <<>>} :
                call' = HelperCall("unnest", UnnestInputs[i][1], UnnestInputs[i][2],
                                   [err |-> stored.err,
                                    val |-> [data_sig |-> data_sig,
                                             record_sig |-> record_sig,
                                             equivalent |->
                                                are_signatures_equivalent(data_sig,
                                                                          record_sig)]])
    /\ UNCHANGED <<mode, hdr, recs, clock, last, file_exists, rm, empties>>

\* The signatures compared: one entry for the root, and at most one more for
\* a child.
SignatureInputs ==
    LET roots ==
            {<<(<<>>), rt>> : rt \in {"cell", "objects", "structure", "object", "numeric"}}
        children ==
            {<<cell_label(1), "numeric">>, <<cell_label(1), "cell">>, <<(<<97>>), "numeric">>}
    IN  {<<root>> : root \in roots}
        \cup {<<root, child>> : root \in roots, child \in children}

AreSignaturesEquivalent ==
    /\ call.fn = "none"
    /\ \E sig1 \in SignatureInputs, sig2 \in SignatureInputs :
          call' = HelperCall("are_signatures_equivalent", "signatures", <<sig1, sig2>>,
                             are_signatures_equivalent(sig1, sig2))
    /\ UNCHANGED <<mode, hdr, recs, clock, last, file_exists, rm, empties>>

\* ------------------------------------------------------------------------
\* The empty values handed out by utils.

\* get_empty_for_type of utils with the module-level table: the list and the
\* mapping are the objects the table holds, returned as they are at the time
\* of the call; the other empty values cannot be changed by a caller.
get_empty_for_type_from(table, record_type) ==
    IF record_type \in DOMAIN table
    THEN [ok |-> TRUE, val |-> table[record_type]]
    ELSE get_empty_for_type(record_type)

GetEmptyForType ==
    /\ call.fn \in {"none", "get_empty_for_type"}
    /\ \E record_type \in {"numeric", "character", "logical", "cell", "structure", "objects"} :
          call' = HelperCall("get_empty_for_type", "record_type", record_type,
                             get_empty_for_type_from(empties, record_type))
    /\ UNCHANGED <<mode, hdr, recs, clock, last, file_exists, rm, empties>>

\* The caller changes the value it was handed by the last call: it appends an
\* item to the list, or sets a key of the mapping.  The value is the object of
\* the table, so the table changes with it.
MutateReturned ==
    /\ call.fn = "get_empty_for_type"
    /\ \/ /\ call.arg = "cell"
          /\ Len(empties.cell.items) < MaxAppended
          /\ empties' = [empties EXCEPT !.cell = List(@.items \o <<Num(1)>>)]
       \/ /\ call.arg = "structure"
          /\ Len(empties.structure.items) = 0
          /\ empties' = [empties EXCEPT !.structure = Dict(<< <<(<<97>>), Num(1)>> >>)]
    /\ UNCHANGED <<mode, hdr, recs, clock, last, file_exists, rm, call>>

NextUtils ==
    \/ InferRecordType
    \/ SparseRoundTrip
    \/ CellRoundTrip
    \/ UnnestValueAndRecord
    \/ AreSignaturesEquivalent
    \/ GetEmptyForType
    \/ MutateReturned

SpecUtils == InitUtils /\ [][NextUtils]_vars

\* ------------------------------------------------------------------------
\* Properties.

Mutating == {"insert", "describe", "remove", "replace"}

\* The attributes every top-level record group carries.
RecordAttrs == {"RecordType", "Deflate", "Description", "Empty"}

\* What extract returns for a label: the error raised and the value.
Read(h, r, l) == LET e == extract(h, r, l) IN <<e.err, e.val>>

\* C1: an insert of a value whose inferred record type is unsupported raises,
\* and leaves the set of labels and the header Updated attribute as they were.
C1_UnsupportedInsertChangesNothing ==
    [][(last'.op = "insert" /\ last'.rtype = NoType) =>
          /\ last'.err # "none"
          /\ DOMAIN recs' = DOMAIN recs
          /\ hdr'.Updated = hdr.Updated]_vars

\* C1 witness: an insert into a writable archive was rejected at the type check.
C1_Witness ==
    /\ last.op = "insert"
    /\ last.rtype = NoType
    /\ last.err = "ValueError"
    /\ last.site = "unsupported"

\* C2: after a successful remove, the removed labels are gone, and every other
\* label is still listed, carries the record attributes it had with their
\* values, and extracts to the same value as before.
C2_RemoveKeepsOtherRecords ==
    [][(last'.op = "remove" /\ last'.err = "none") =>
          /\ DOMAIN recs' = (DOMAIN recs) \ last'.labels
          /\ \A l \in (DOMAIN recs) \ last'.labels :
                /\ l \in DOMAIN recs'
                /\ \A a \in RecordAttrs \cap DOMAIN recs[l].attrs :
                      /\ a \in DOMAIN recs'[l].attrs
                      /\ recs'[l].attrs[a] = recs[l].attrs[a]
                /\ Read(hdr', recs', l) = Read(hdr, recs, l)]_vars

\* C3: every successful insert, describe, remove and replace leaves the header
\* at FormatVersion "1.1" with Updated rewritten by that operation.
C3_MutationTouchesHeader ==
    [][(last'.op \in Mutating /\ last'.err = "none") =>
          /\ hdr'.FormatVersion = Version11
          /\ hdr'.Updated = clock']_vars

\* C4: an extract, successful or failing, leaves the header, the labels and
\* every stored record as they were.
C4_ExtractChangesNothing ==
    [][last'.op = "extract" => (hdr' = hdr /\ recs' = recs)]_vars

\* C4 witness: an extract of a stored record returned a value.
C4_Witness ==
    /\ last.op = "extract"
    /\ last.err = "none"
    /\ last.labels \subseteq DOMAIN recs

C6_ReadWriteModeWrites ==
    [][(hdr.Writable = "yes" /\ last'.op \in Mutating \cup {"set_writable"}
          /\ last'.site = "not_writable") => mode = "r"]_vars

\* The places of insert where the insertion of a value fails.
InsertionFailures ==
    {"unsupported", "encode", "unpack", "field_label", "record_type", "none_attribute"}

\* C7: when replace fails because the insertion of the new value fails, the
\* record stored under the label before the call is still there, with its
\* payload and its attributes.
C7_FailedReplaceKeepsRecord ==
    [][(last'.op = "replace" /\ last'.site \in InsertionFailures) =>
          \A l \in last'.labels : l \in DOMAIN recs' /\ recs'[l] = recs[l]]_vars

\* C8: after a successful replace the record under the label has the
\* Description and the Deflate attribute it had before the call.
C8_ReplaceKeepsDescriptionAndDeflate ==
    [][(last'.op = "replace" /\ last'.err = "none") =>
          \A l \in last'.labels : \A a \in {"Description", "Deflate"} :
             /\ a \in DOMAIN recs[l].attrs
             /\ a \in DOMAIN recs'[l].attrs
             /\ recs'[l].attrs[a] = recs[l].attrs[a]]_vars

\* C8 witness: a replace succeeded on a record whose description and deflate
\* are not the defaults of insert.
C8_Witness ==
    /\ last.op = "replace"
    /\ last.err = "none"
    /\ \E l \in last.labels : recs[l].attrs["Deflate"] = 1 /\ recs[l].attrs["Description"] = "d"

C10_FailedCompositeInsertKeepsHeader ==
    [][(last'.op = "insert" /\ last'.rtype \in {"cell", "structure"}
          /\ last'.err # "none") =>
          /\ hdr'.Updated = hdr.Updated
          /\ hdr'.FormatVersion = hdr.FormatVersion]_vars

\* C11: an insert of a cell or structure that fails on a child of unsupported
\* type, at any depth, raises, and the label is not listed afterwards (so no
\* partially written children remain under it).
C11_UnsupportedChildLeavesNoLabel ==
    [][(last'.op = "insert" /\ last'.site \in {"none_attribute", "record_type"}) =>
          /\ last'.err # "none"
          /\ last'.labels \cap DOMAIN recs' = {}]_vars

\* C12: an insert of a text with a non-ASCII character fails, the label is not
\* listed afterwards, and the records and the header are as before the call.
C12_NonAsciiInsertChangesNothing ==
    [][(last'.op = "insert" /\ last'.rtype = "character" /\ last'.site = "encode") =>
          /\ last'.err # "none"
          /\ last'.labels \cap DOMAIN recs' = {}
          /\ recs' = recs
          /\ hdr' = hdr]_vars

\* The label reasons for which an operation on labels is rejected: a separator
\* in a label (insert, extract, describe), insert on an existing label,
\* extract, describe or replace on a missing label, remove of no label or of
\* labels of which one is missing.
LabelFault(op, labels) ==
    \/ op \in {"insert", "extract", "describe"} /\ \E l \in labels : HasSeparator(l)
    \/ op = "insert" /\ labels \cap DOMAIN recs # {}
    \/ op \in {"extract", "describe", "replace"} /\ labels \ DOMAIN recs # {}
    \/ op = "remove" /\ (labels = {} \/ labels \ DOMAIN recs # {})

\* C13: an operation with a label fault, on an archive that accepts writes when
\* the operation writes, raises ValueError and leaves the header and every
\* record as they were.
C13_LabelFaultRejectedUnchanged ==
    [][(LabelFault(last'.op, last'.labels)
          /\ (last'.op = "extract" \/ validate_can_write(mode, hdr) = "none")) =>
          /\ last'.err = "ValueError"
          /\ hdr' = hdr
          /\ recs' = recs]_vars

\* C13 witness: a remove of several labels, one stored and one missing, was
\* rejected, and the stored one is still there.
C13_Witness ==
    /\ last.op = "remove"
    /\ last.err = "ValueError"
    /\ last.labels \cap DOMAIN recs # {}
    /\ last.labels \ DOMAIN recs # {}
    /\ \A l \in last.labels \cap DOMAIN recs : extract(hdr, recs, l).err = "none"

\* The steps of remove end in the file the one-step remove produces.
RemoveStepsAgree ==
    [][(rm.pc = "closed" /\ rm'.pc = "idle" /\ last'.err = "none") =>
          LET r == remove(mode, hdr, recs, rm.labels, clock)
          IN  r.err = "none" /\ hdr' = r.hdr /\ recs' = r.recs]_vars

\* C14: from the creation of the replacement file to the moment before the
\* move, every step of remove (and a crash or an error between two steps)
\* leaves the header and the records of the original file as they were.
C14_OriginalIntactUntilMove ==
    [][(rm.pc \in {"created", "copying", "touched"}
          \/ (rm.pc = "closed" /\ last'.err # "none")) =>
          (hdr' = hdr /\ recs' = recs)]_vars

\* C14 witness: the replacement is complete and closed, it lacks a record the
\* original still holds, and the original still has its old Updated stamp.
C14_Witness ==
    /\ rm.pc = "closed"
    /\ rm.labels \cap DOMAIN recs # {}
    /\ DOMAIN rm.dest_recs # DOMAIN recs
    /\ rm.dest_hdr.Updated = clock
    /\ hdr.Updated < clock

\* C15: when no operation is in progress, no store handle is open.
C15_NoHandleLeftOpen == rm.pc = "idle" => rm.handles = {}

\* Equality of an extracted value and an inserted one: sequences have the same
\* number of children, equal in order; mappings have equal items once sorted
\* by key; anything else is the same value (an empty value is its own
\* normal form).
RECURSIVE SameValue(_, _)
SameValue(a, b) ==
    IF a.kind = "list"
    THEN /\ b.kind = "list"
         /\ Len(a.items) = Len(b.items)
         /\ \A i \in 1..Len(a.items) : SameValue(a.items[i], b.items[i])
    ELSE IF a.kind = "dict"
    THEN /\ b.kind = "dict"
         /\ Len(a.items) = Len(b.items)
         /\ LET sa == SortItems(a.items)
                sb == SortItems(b.items)
            IN  \A i \in 1..Len(sa) :
                   sa[i][1] = sb[i][1] /\ SameValue(sa[i][2], sb[i][2])
    ELSE a = b

\* C16: whenever the archive is in a state where insert accepts a cell value
\* under a label, extract of that label after the insert returns a sequence
\* with the same number of children, each equal to the inserted child.
C16_CellRoundTrip ==
    \A v \in 1..Len(Vals), label \in LabelInputs :
       Vals[v].kind = "list" =>
          LET r == insert(mode, hdr, recs, label, Vals[v], "", 0, clock + 1, TRUE)
          IN  r.err = "none" =>
                 LET e == extract(r.hdr, r.recs, label)
                 IN  e.err = "none" /\ SameValue(e.val, Vals[v])

HeaderAttrs == {"FileFormat", "FormatVersion", "Writable", "Created", "Updated"}

\* A header attribute is missing or invalid: the file format is not 'SDA', the
\* version is neither '1.0' nor '1.1', the flag is neither 'yes' nor 'no', or
\* a time stamp is not a date.
HeaderMissingOrInvalid(attrs) ==
    \/ \E a \in HeaderAttrs : a \notin DOMAIN attrs
    \/ attrs.FileFormat # "SDA"
    \/ attrs.FormatVersion \notin {Version10, Version11}
    \/ attrs.Writable \notin {"yes", "no"}
    \/ attrs.Created < 0
    \/ attrs.Updated < 0

\* C17: on an existing file of which a header attribute is missing or invalid,
\* the constructor raises BadSDAFile in the modes 'r', 'r+' and 'a', and
\* leaves the attributes and the records of the file as they are.
C17_BadHeaderIsFatal ==
    (file_exists /\ HeaderMissingOrInvalid(hdr)) =>
       \A new_mode \in {"r", "r+", "a"} :
          LET r == open_file(mode, file_exists, hdr, recs, new_mode, clock + 1)
          IN  r.err = "BadSDAFile" /\ r.hdr = hdr /\ r.recs = recs

\* C18: is_valid_format_version accepts the version text of a header exactly
\* when it is '1.0' or '1.1'.
C18_ExactlyTwoVersions ==
    "FormatVersion" \in DOMAIN hdr =>
       (is_valid_format_version(hdr.FormatVersion)
           <=> hdr.FormatVersion \in {Version10, Version11})

\* C19: insert, describe, remove, replace, extract and an assignment to
\* Writable, successful or failing, leave the header Created attribute as it
\* was: it keeps the value written when the archive was created.
C19_CreatedNeverChanges ==
    [][last'.op \in Mutating \cup {"extract", "set_writable"} =>
          hdr'.Created = hdr.Created]_vars

\* C19 witness: a remove rebuilt the file and touched its header, and Created
\* is still the time of creation, earlier than Updated.
C19_Witness ==
    /\ last.op = "remove"
    /\ last.err = "none"
    /\ hdr.Updated = clock
    /\ hdr.Created < hdr.Updated

\* C20: a constructor call that creates the archive (mode 'w', 'w-' or 'x', or
\* mode 'a' on a missing file) leaves a header of exactly the five attributes,
\* with FileFormat 'SDA', FormatVersion '1.1', Writable 'yes', and Created
\* equal to Updated.
C20_NewArchiveHeader ==
    [][(last'.op = "open" /\ last'.err = "none"
          /\ (mode' \in {"w", "w-", "x"} \/ (mode' = "a" /\ ~file_exists))) =>
          /\ DOMAIN hdr' = HeaderAttrs
          /\ hdr'.FileFormat = "SDA"
          /\ hdr'.FormatVersion = Version11
          /\ hdr'.Writable = "yes"
          /\ hdr'.Created = hdr'.Updated]_vars

\* C20 witness: mode 'x' created the archive on a missing file, stamped with
\* the time of the call.
C20_Witness ==
    /\ last.op = "open"
    /\ last.err = "none"
    /\ mode = "x"
    /\ file_exists
    /\ recs = EmptyMap
    /\ hdr.Created = clock
    /\ clock > 0

\* The parts of a complex scalar or array: all of them, in order.
ComplexParts(obj) == IF obj.kind = "complex" THEN <<obj>> ELSE obj.items

\* C21: for a complex scalar or array of supported width, infer_record_type
\* returns record type 'numeric' with extra 'complex', and is_empty is true
\* exactly when every real part and every imaginary part is NaN.
C21_ComplexInferred ==
    (call.fn = "infer_record_type" /\ call.family = "complex") =>
       /\ call.out.err = "none"
       /\ call.out.record_type = "numeric"
       /\ call.out.extra = "complex"
       /\ call.out.is_empty <=>
             (AllNaN(ComplexParts(call.arg), "re") /\ AllNaN(ComplexParts(call.arg), "im"))

\* C24: for a mapping whose keys are not strings infer_record_type returns the
\* unsupported result, record type None.
C24_NonStringKeysUnsupported ==
    (call.fn = "infer_record_type" /\ call.family = "mapping_nonstring_keys") =>
       (call.out.err = "none" /\ call.out.record_type = NoType)

C22_SparseRoundTrip ==
    (call.fn \in {"extract_sparse", "extract_sparse_complex"}) =>
       /\ call.out.err = "none"
       /\ call.out.val.shape = call.arg.shape
       /\ call.out.val.entries = call.arg.entries

\* C23: whenever the archive is in a state where insert accepts the label,
\* insert(label, {}) of a mapping with zero keys succeeds and stores a
\* structure record marked Empty 'yes' with no children, and extract(label)
\* afterwards returns an empty mapping.
C23_EmptyMappingInserted ==
    \A label \in LabelInputs :
       insert_checks(mode, hdr, recs, label, Dict(<<>>), 0).err = "none" =>
          LET r == insert(mode, hdr, recs, label, Dict(<<>>), "", 0, clock + 1, TRUE)
          IN  /\ r.err = "none"
              /\ label \in DOMAIN r.recs
              /\ r.recs[label].attrs["RecordType"] = "structure"
              /\ r.recs[label].attrs["Empty"] = "yes"
              /\ DOMAIN r.recs[label].children = {}
              /\ LET e == extract(r.hdr, r.recs, label)
                 IN  e.err = "none" /\ e.val = Dict(<<>>)

\* The child stored in a cell group under a label, read on its own.
StoredChild(grp, label) == extract_composite_data(grp, <<label>>, 1)

\* The number of rows and of columns of a cell value, and its child at row i,
\* column j (from 0): an array of two dimensions has its own, an array of one
\* dimension and a flat sequence of N children have one row of N.
CellRows(data) == IF data.kind = "ndarray" /\ Len(data.shape) = 2 THEN data.shape[1] ELSE 1

CellColumns(data) ==
    IF data.kind = "ndarray" /\ Len(data.shape) = 2 THEN data.shape[2] ELSE Len(data.items)

ChildAt(data, i, j) == data.items[i * CellColumns(data) + j + 1]

\* C26: inserting an R x C array of children as a cell stores RecordSize
\* (R, C) and writes the child at row i, column j (from 0) under the label
\* 'element k' with k = i + j*R + 1; a flat sequence of N children stores
\* RecordSize (1, N) with the labels 'element 1'..'element N' in order; and
\* extraction places the child labelled 'element k' back at the position it
\* came from.
C26_CellArrayColumnMajor ==
    (call.fn = "insert_then_extract") =>
       LET data == call.arg
           R == CellRows(data)
           C == CellColumns(data)
           grp == call.out.grp
           e == call.out.extracted
       IN  /\ call.out.err = "none"
           /\ grp.attrs["RecordSize"] = <<R, C>>
           /\ DOMAIN grp.children = {cell_label(k) : k \in 1..(R * C)}
           /\ \A i \in 0..(R - 1), j \in 0..(C - 1) :
                 LET child == StoredChild(grp, cell_label(i + j * R + 1))
                 IN  child.err = "none" /\ SameValue(child.val[1], ChildAt(data, i, j))
           /\ e.err = "none"
           /\ Len(e.val.items) = R * C
           /\ \A i \in 0..(R - 1), j \in 0..(C - 1) :
                 SameValue(e.val.items[i * C + j + 1], ChildAt(data, i, j))

\* Every cell or structure group at or below grp is marked Empty 'yes' exactly
\* when it has no children.
RECURSIVE EmptyIffNoChildren(_)
EmptyIffNoChildren(grp) ==
    grp.node = "group" =>
       /\ ("RecordType" \in DOMAIN grp.attrs /\ grp.attrs["RecordType"] \in {"cell", "structure"}) =>
             /\ "Empty" \in DOMAIN grp.attrs
             /\ grp.attrs["Empty"] = "yes" <=> DOMAIN grp.children = {}
       /\ \A l \in DOMAIN grp.children : EmptyIffNoChildren(grp.children[l])

\* C27: after any successful insert, every cell or structure group of the
\* inserted record has Empty 'yes' if and only if it has zero children;
\* writing a child record, even an empty one, never changes the Empty
\* attribute of its parent group.
C27_ParentEmptyIffNoChildren ==
    [][(last'.op = "insert" /\ last'.err = "none") =>
          \A label \in last'.labels : EmptyIffNoChildren(recs'[label])]_vars

\* C28: for any value containing a cell, unnest names the children of the
\* cell by the labels the inserter writes, 'element 1'..'element N', so that
\* the signature unnest(value) has the paths of, and is equivalent to,
\* unnest_record of the record group inserted from that same value.
C28_UnnestMatchesRecord ==
    (call.fn = "unnest" /\ call.family = "with_cell") =>
       /\ call.out.err = "none"
       /\ Len(call.out.val.data_sig) = Len(call.out.val.record_sig)
       /\ \A k \in 1..Len(call.out.val.data_sig) :
             call.out.val.data_sig[k][1] = call.out.val.record_sig[k][1]
       /\ call.out.val.equivalent

\* The two record types are equal or in the same read-equivalence class.
SameReadClass(rt1, rt2) ==
    \/ rt1 = rt2
    \/ {rt1, rt2} \subseteq {"structure", "object"}
    \/ {rt1, rt2} \subseteq {"cell", "objects", "structures"}

\* C29: are_signatures_equivalent returns true only if the two signatures
\* have the same number of entries and, position by position, equal paths
\* and record types that are equal or in the same read-equivalence class; a
\* signature is never equivalent to a strictly longer one it is a prefix of.
C29_EquivalentSignaturesSameLength ==
    (call.fn = "are_signatures_equivalent" /\ call.out) =>
       /\ Len(call.arg[1]) = Len(call.arg[2])
       /\ \A k \in 1..Len(call.arg[1]) :
             /\ call.arg[1][k][1] = call.arg[2][k][1]
             /\ SameReadClass(call.arg[1][k][2], call.arg[2][k][2])

\* C30: get_empty_for_type('cell') and get_empty_for_type('structure') return
\* an empty list and an empty mapping on every call, whatever callers did to
\* the values returned by earlier calls.
C30_EmptyValuesStayEmpty ==
    (call.fn = "get_empty_for_type") =>
       /\ call.arg = "cell" => call.out.val = List(<<>>)
       /\ call.arg = "structure" => call.out.val = Dict(<<>>)

====
